---- MODULE Spec2Model ----
(***************************************************************************)
(* The cookie text editor (src/editor.go, src/cookie.go): the row store,   *)
(* the render cache and highlighter, the cursor/viewport mapper, the       *)
(* incremental search and the command dispatcher, as a state machine.      *)
(* Rows are 1-based sequences here; the idx field, the cursor and every    *)
(* other index keep the 0-based values of the Go code.                     *)
(***************************************************************************)
EXTENDS Integers, Sequences, FiniteSets, TLC

\* ------------------------------------------------------------------ bounds
MaxRows == 2
MaxLen == 2
MaxQuery == 1
MaxDirty == 1
MaxIdx == 2
MaxQuitTimes == 2
MaxHlLen == 5
MaxColLen == 4
MaxSeekLen == 3
MaxBoolLen == 5

\* ------------------------------------------------------- highlight tags
hlNormal == 0
hlComment == 1
hlMlComment == 2
hlKeyword1 == 3
hlKeyword2 == 4
hlString == 5
hlNumber == 6
hlBoolean == 7
hlMatch == 8

\* ------------------------------------------------------------ characters
TAB == "\t"
SPACE == " "
QUOTE == "'"
DQUOTE == "\""
\* The backquote character, which a TLA+ string cannot hold.
BACKQUOTE == "bq"
BACKSLASH == "\\"
NoQuote == ""

\* Characters of more than one byte in UTF-8, and of display width 2.
WideRunes == {"W"}

\* utf8.RuneLen: the bytes a character takes in a Go string.
RuneLen(r) == IF r \in WideRunes THEN 3 ELSE 1

\* runewidth.RuneWidth: the display columns of a character.
RuneWidth(r) == IF r \in WideRunes THEN 2 ELSE 1

Digits == {"0", "1", "2", "3", "4", "5", "6", "7", "8", "9"}

IsDigit(r) == r \in Digits

SeparatorRunes ==
  {",", ".", "(", ")", "+", "-", "/", "*", "=", "~", "%", "<", ">", "[", "]", "{", "}", ":", ";"}

IsSeparator(r) == r \in {SPACE, TAB} \/ r \in SeparatorRunes

ToLower(r) ==
  CASE r = "T" -> "t"
    [] r = "R" -> "r"
    [] r = "U" -> "u"
    [] r = "E" -> "e"
    [] r = "F" -> "f"
    [] r = "A" -> "a"
    [] r = "L" -> "l"
    [] r = "S" -> "s"
    [] OTHER -> r

LowerAll(s) == [i \in 1..Len(s) |-> ToLower(s[i])]

\* ---------------------------------------------------- syntax definitions
\* The "c" entry of the default syntax file, with the keywords the model types.
SyntaxC ==
  [ FileType |-> "c",
    Keywords |-> << <<"i", "f">>, <<"i", "n", "t", "|">> >>,
    SCS |-> <<"/", "/">>,
    MCS |-> <<"/", "*">>,
    MCE |-> <<"*", "/">>,
    HighLightNumbers |-> TRUE,
    HighLightStrings |-> TRUE,
    HighLightBooleans |-> TRUE ]

NoSyntax == [FileType |-> "none"]

\* ----------------------------------------------------------- sequences
Min(a, b) == IF a < b THEN a ELSE b

\* runes[from:] of Go, from 0-based.
Drop(s, from) == SubSeq(s, from + 1, Len(s))

\* strings.HasPrefix(string(runes[idx:]), p)
HasPrefixAt(runes, idx, p) ==
  /\ idx + Len(p) <= Len(runes)
  /\ SubSeq(runes, idx + 1, idx + Len(p)) = p

\* Seq of n copies of x.
Repeat(x, n) == [i \in 1..n |-> x]

RECURSIVE ByteLen(_)
ByteLen(s) == IF s = <<>> THEN 0 ELSE RuneLen(Head(s)) + ByteLen(Tail(s))

\* The 0-based rune position where q first occurs in s, or -1.
RuneIndex(s, q) ==
  LET hits == {i \in 0..(Len(s) - Len(q)) : SubSeq(s, i + 1, i + Len(q)) = q}
  IN IF hits = {} THEN -1 ELSE CHOOSE i \in hits : \A j \in hits : i <= j

\* strings.Index(s, q): the BYTE offset of the first occurrence, or -1.
StringsIndex(s, q) ==
  LET ri == RuneIndex(s, q)
  IN IF ri = -1 THEN -1 ELSE ByteLen(SubSeq(s, 1, ri))

\* ------------------------------------------------------------ highlighter
IsQuote(r) == r \in {DQUOTE, QUOTE, BACKQUOTE}

\* hl[from] .. hl[to-1] := tag (0-based, to exclusive).
SetRange(hl, from, to, tag) ==
  [i \in 1..Len(hl) |-> IF i > from /\ i <= to THEN tag ELSE hl[i]]

\* A keyword of the list without its trailing "|" marker.
KwText(kw) ==
  IF Len(kw) > 0 /\ kw[Len(kw)] = "|" THEN SubSeq(kw, 1, Len(kw) - 1) ELSE kw

KwTag(kw) ==
  IF Len(kw) > 0 /\ kw[Len(kw)] = "|" THEN hlKeyword2 ELSE hlKeyword1

\* The keyword match without the test of what follows the keyword.
KwMatchesAtAnyEnd(runes, idx, kw) ==
  /\ idx + Len(KwText(kw)) <= Len(runes)
  /\ KwText(kw) = SubSeq(runes, idx + 1, idx + Len(KwText(kw)))

\* Does keyword kw match at idx: the text equals it and a separator or the
\* end of the row follows (editor.go:834-836).
KwMatchesAt(runes, idx, kw) ==
  LET end == idx + Len(KwText(kw))
  IN /\ end <= Len(runes)
     /\ KwText(kw) = SubSeq(runes, idx + 1, end)
     /\ (end = Len(runes) \/ IsSeparator(runes[end + 1]))

\* The position in the keyword list of the first keyword matching at idx, or 0.
FirstKeyword(S, runes, idx) ==
  LET hits == {k \in 1..Len(S.Keywords) : KwMatchesAt(runes, idx, S.Keywords[k])}
  IN IF hits = {} THEN 0 ELSE CHOOSE k \in hits : \A j \in hits : k <= j

\* "true"/"false" at idx, case-insensitively, followed by a separator or the
\* end of the row (editor.go:801-802, 813-814).
BoolAt(runes, idx, word) ==
  /\ idx + Len(word) <= Len(runes)
  /\ LowerAll(SubSeq(runes, idx + 1, idx + Len(word))) = word
  /\ ~(idx + Len(word) < Len(runes) /\ ~IsSeparator(runes[idx + Len(word) + 1]))

WordTrue == <<"t", "r", "u", "e">>
WordFalse == <<"f", "a", "l", "s", "e">>

\* The scanning loop of UpdateHighlight (editor.go:721-857) from position
\* idx on, with the loop's local state; yields the tags and the final
\* inComment.
RECURSIVE HlScan(_, _, _, _, _, _, _)
HlScan(S, runes, idx, hl, prevSep, strQuote, inComment) ==
  IF idx >= Len(runes) THEN [hl |-> hl, inComment |-> inComment]
  ELSE
    LET r == runes[idx + 1]
        prevHl == IF idx > 0 THEN hl[idx] ELSE hlNormal
        kw == IF prevSep THEN FirstKeyword(S, runes, idx) ELSE 0
    IN
    IF S.SCS # <<>> /\ strQuote = NoQuote /\ ~inComment /\ HasPrefixAt(runes, idx, S.SCS)
    THEN [hl |-> SetRange(hl, idx, Len(runes), hlComment), inComment |-> inComment]
    ELSE IF S.MCS # <<>> /\ S.MCE # <<>> /\ strQuote = NoQuote /\ inComment
    THEN IF HasPrefixAt(runes, idx, S.MCE)
         THEN HlScan(S, runes, idx + Len(S.MCE),
                     SetRange(hl, idx, idx + Len(S.MCE), hlMlComment),
                     TRUE, strQuote, FALSE)
         ELSE HlScan(S, runes, idx + 1, SetRange(hl, idx, idx + 1, hlMlComment),
                     prevSep, strQuote, inComment)
    ELSE IF S.MCS # <<>> /\ S.MCE # <<>> /\ strQuote = NoQuote
            /\ HasPrefixAt(runes, idx, S.MCS)
    THEN HlScan(S, runes, idx + Len(S.MCS),
                SetRange(hl, idx, idx + Len(S.MCS), hlMlComment),
                prevSep, strQuote, TRUE)
    ELSE IF S.HighLightStrings /\ strQuote # NoQuote
    THEN IF r = BACKSLASH /\ idx + 1 < Len(runes)
         THEN HlScan(S, runes, idx + 2, SetRange(hl, idx, idx + 2, hlString),
                     prevSep, strQuote, inComment)
         ELSE HlScan(S, runes, idx + 1, SetRange(hl, idx, idx + 1, hlString),
                     TRUE, IF r = strQuote THEN NoQuote ELSE strQuote, inComment)
    ELSE IF S.HighLightStrings /\ IsQuote(r)
    THEN HlScan(S, runes, idx + 1, SetRange(hl, idx, idx + 1, hlString),
                prevSep, r, inComment)
    ELSE IF S.HighLightNumbers
            /\ ((IsDigit(r) /\ (prevSep \/ prevHl = hlNumber))
                \/ (r = "." /\ prevHl = hlNumber))
    THEN HlScan(S, runes, idx + 1, SetRange(hl, idx, idx + 1, hlNumber),
                FALSE, strQuote, inComment)
    ELSE IF S.HighLightBooleans /\ BoolAt(runes, idx, WordTrue)
    THEN HlScan(S, runes, idx + 4, SetRange(hl, idx, idx + 4, hlBoolean),
                FALSE, strQuote, inComment)
    ELSE IF S.HighLightBooleans /\ BoolAt(runes, idx, WordFalse)
    THEN HlScan(S, runes, idx + 5, SetRange(hl, idx, idx + 5, hlBoolean),
                FALSE, strQuote, inComment)
    ELSE IF kw # 0
    THEN HlScan(S, runes, idx + Len(KwText(S.Keywords[kw])),
                SetRange(hl, idx, idx + Len(KwText(S.Keywords[kw])), KwTag(S.Keywords[kw])),
                FALSE, strQuote, inComment)
    ELSE HlScan(S, runes, idx + 1, hl, IsSeparator(r), strQuote, inComment)

\* One row's tags and carried state from its rendered text and the state
\* carried in (editor.go:706-857, without the cascade).
HighlightOf(S, runes, inComment0) ==
  IF S = NoSyntax
  THEN [hl |-> Repeat(hlNormal, Len(runes)), inComment |-> FALSE]
  ELSE HlScan(S, runes, 0, Repeat(hlNormal, Len(runes)), TRUE, NoQuote, inComment0)

\* ----------------------------------------------------------------- state
VARIABLES
  Rows,         \* Editor.Rows: the rows, each [idx, chars, render, hl, hasUnclosedComment]
  CX, CY,       \* Editor.CX, Editor.CY: the cursor (character offset, row)
  RX,           \* Editor.RX: the cursor's rendered column
  RowOffset,    \* Editor.RowOffset
  ColOffset,    \* Editor.ColOffset
  Dirty,        \* Editor.Dirty: the modified counter
  QuitCounter,  \* Editor.QuitCounter
  Filename,     \* Editor.Filename ("" when unset)
  Syntax,       \* Editor.Syntax (NoSyntax for nil)
  Config,       \* Editor.Config: [TabStop, QuitTimes]
  ScreenRows,   \* Editor.ScreenRows
  ScreenCols,   \* Editor.ScreenCols
  pc,           \* where the program is: "load", "main", "find", "exit", "panic",
                \* and "cut" inside the ctrl-d handler where SpecRace splits it
  find,         \* the locals of Editor.Find and the query buffer of Editor.Prompt
  lastCmd,      \* history: the kind of the command handled last
  quitRun       \* history: the quit requests made since the last other command

vars ==
  <<Rows, CX, CY, RX, RowOffset, ColOffset, Dirty, QuitCounter, Filename, Syntax,
    Config, ScreenRows, ScreenCols, pc, find, lastCmd, quitRun>>

\* The Editor struct as one value; ok turns FALSE when the handler panics.
Ed ==
  [ Rows |-> Rows, CX |-> CX, CY |-> CY, RX |-> RX, RowOffset |-> RowOffset,
    ColOffset |-> ColOffset, Dirty |-> Dirty, QuitCounter |-> QuitCounter,
    Filename |-> Filename, Syntax |-> Syntax, Config |-> Config,
    ScreenRows |-> ScreenRows, ScreenCols |-> ScreenCols, ok |-> TRUE ]

Panic(e) == [e EXCEPT !.ok = FALSE]

\* The locals of Find before a session starts; hlBefore is history, the tags
\* of the rows when the session began.
FindIdle ==
  [ query |-> <<>>, savedCx |-> 0, savedCy |-> 0, savedColOffset |-> 0,
    savedRowOffset |-> 0, lastMatchRowIndex |-> -1, searchDirection |-> 1,
    savedHlRowIndex |-> -1, savedHl |-> <<>>, hlBefore |-> <<>> ]

NewRow(at, chars, unclosed) ==
  [ idx |-> at, chars |-> chars, render |-> <<>>, hl |-> <<>>,
    hasUnclosedComment |-> unclosed ]

\* ------------------------------------------------------------- row cache
\* The rendering loop of UpdateRow: col counts only the spaces written for tabs.
RECURSIVE RenderScan(_, _, _, _)
RenderScan(chars, i, col, tabStop) ==
  IF i > Len(chars) THEN <<>>
  ELSE IF chars[i] = TAB
  THEN LET pad == IF (col + 1) % tabStop = 0 THEN 0 ELSE tabStop - ((col + 1) % tabStop)
       IN Repeat(SPACE, 1 + pad) \o RenderScan(chars, i + 1, col + 1 + pad, tabStop)
  ELSE <<chars[i]>> \o RenderScan(chars, i + 1, col, tabStop)

RenderOf(chars, tabStop) == RenderScan(chars, 1, 0, tabStop)

\* The row r1 as it stands after an update: written into e.Rows at position
\* p (1-based), or kept apart when p = 0 (a row not yet in e.Rows).
Placed(e, p, r1) ==
  [e |-> IF p > 0 THEN [e EXCEPT !.Rows[p] = r1] ELSE e, row |-> r1]

RECURSIVE UpdateHighlight(_, _, _)

\* The end of UpdateHighlight (editor.go:859-863): u holds the editor and the
\* row as highlighted; the row after it is highlighted when the carried state
\* of the row has changed.
Cascade(u, changed, idx) ==
  IF changed /\ idx + 1 < Len(u.e.Rows)
  THEN [e |-> UpdateHighlight(u.e, idx + 2, u.e.Rows[idx + 2]).e, row |-> u.row]
  ELSE u

Highlighted(e, p, row, res) ==
  Cascade(Placed(e, p, [row EXCEPT !.hl = res.hl, !.hasUnclosedComment = res.inComment]),
          row.hasUnclosedComment # res.inComment, row.idx)

\* Editor.UpdateHighlight on the row at position p of e.Rows (1-based), or on
\* the row `row` not yet in e.Rows when p = 0. Yields the editor and the row.
UpdateHighlight(e, p, row) ==
  IF e.Syntax = NoSyntax
  THEN Placed(e, p, [row EXCEPT !.hl = Repeat(hlNormal, Len(row.render))])
  ELSE IF row.idx > 0 /\ row.idx > Len(e.Rows)
  THEN [e |-> Panic(e), row |-> row]
  ELSE Highlighted(e, p, row,
                   HighlightOf(e.Syntax, row.render,
                               row.idx > 0 /\ e.Rows[row.idx].hasUnclosedComment))

\* UpdateRow without its call of UpdateHighlight.
UpdateRowNoHighlight(e, p, row) ==
  Placed(e, p, [row EXCEPT !.render = RenderOf(row.chars, e.Config.TabStop)])

\* Editor.UpdateRow, with p and row as for UpdateHighlight.
UpdateRow(e, p, row) ==
  UpdateHighlight(e, p, [row EXCEPT !.render = RenderOf(row.chars, e.Config.TabStop)])

\* The end of InsertRow (editor.go:657-662): the row u.row goes into the rows
\* at `at` and the rows after it are renumbered.
Spliced(u, at) ==
  [u.e EXCEPT !.Rows =
     [i \in 1..(Len(u.e.Rows) + 1) |->
        IF i <= at THEN u.e.Rows[i]
        ELSE IF i = at + 1 THEN u.row
        ELSE [u.e.Rows[i - 1] EXCEPT !.idx = @ + 1]]]

\* Editor.InsertRow(at, chars), at 0-based.
InsertRow(e, at, chars) ==
  IF at < 0 \/ at > Len(e.Rows) THEN e
  ELSE Spliced(UpdateRow(e, 0, NewRow(at, chars, at > 0 /\ e.Rows[at].hasUnclosedComment)),
               at)

\* Editor.DeleteRow(at), at 0-based.
DeleteRow(e, at) ==
  IF at < 0 \/ at >= Len(e.Rows) THEN e
  ELSE
    LET old == e.Rows
        new == [i \in 1..(Len(old) - 1) |->
                  IF i <= at THEN old[i] ELSE [old[i + 1] EXCEPT !.idx = @ - 1]]
    IN [e EXCEPT !.Rows = new, !.Dirty = @ + 1]

\* Row.InsertChar(at, c)
RowInsertChar(chars, at, c) ==
  LET a == IF at < 0 \/ at > Len(chars) THEN Len(chars) ELSE at
  IN SubSeq(chars, 1, a) \o <<c>> \o Drop(chars, a)

\* Row.DeleteChar(at)
RowDeleteChar(chars, at) ==
  IF at < 0 \/ at >= Len(chars) THEN chars
  ELSE SubSeq(chars, 1, at) \o Drop(chars, at + 1)

\* ------------------------------------------------------ cursor and viewport
\* Editor.RowCxToRx
RECURSIVE CxToRxScan(_, _, _, _, _)
CxToRxScan(chars, i, cx, rx, tabStop) ==
  IF i > cx THEN rx
  ELSE CxToRxScan(chars, i + 1, cx,
                  IF chars[i] = TAB THEN rx + (tabStop - (rx % tabStop))
                  ELSE rx + RuneWidth(chars[i]),
                  tabStop)

\* RowCxToRx counting one column for every character.
RowCxToRxByCount(row, cx, tabStop) == cx

RowCxToRx(row, cx, tabStop) == CxToRxScan(row.chars, 1, cx, 0, tabStop)

\* Editor.RowRxToCx: the 0-based index of the first character whose rendered
\* end passes rx, or -1 where the Go code reaches panic("unreachable").
RECURSIVE RxToCxScan(_, _, _, _, _)
RxToCxScan(chars, i, rx, curRx, tabStop) ==
  IF i > Len(chars) THEN -1
  ELSE LET nxt == IF chars[i] = TAB THEN curRx + (tabStop - (curRx % tabStop))
                  ELSE curRx + RuneWidth(chars[i])
       IN IF nxt > rx THEN i - 1 ELSE RxToCxScan(chars, i + 1, rx, nxt, tabStop)

\* RowRxToCx stopping one column late.
RowRxToCxLate(row, rx, tabStop) == RxToCxScan(row.chars, 1, rx + 1, 0, tabStop)

RowRxToCx(row, rx, tabStop) == RxToCxScan(row.chars, 1, rx, 0, tabStop)

\* Scroll bringing a cursor below the window to the row after the last
\* visible one.
ScrollShort(e) ==
  IF e.CY < Len(e.Rows) /\ e.CX > Len(e.Rows[e.CY + 1].chars) THEN Panic(e)
  ELSE
    LET rx == IF e.CY < Len(e.Rows)
              THEN RowCxToRx(e.Rows[e.CY + 1], e.CX, e.Config.TabStop) ELSE 0
        ro1 == IF e.CY < e.RowOffset THEN e.CY ELSE e.RowOffset
        ro2 == IF e.CY >= ro1 + e.ScreenRows THEN e.CY - e.ScreenRows ELSE ro1
        co1 == IF rx < e.ColOffset THEN rx ELSE e.ColOffset
        co2 == IF rx >= co1 + e.ScreenCols THEN rx - e.ScreenCols + 1 ELSE co1
    IN [e EXCEPT !.RX = rx, !.RowOffset = ro2, !.ColOffset = co2]

\* Editor.Scroll
Scroll(e) ==
  IF e.CY < Len(e.Rows) /\ e.CX > Len(e.Rows[e.CY + 1].chars) THEN Panic(e)
  ELSE
    LET rx == IF e.CY < Len(e.Rows)
              THEN RowCxToRx(e.Rows[e.CY + 1], e.CX, e.Config.TabStop) ELSE 0
        ro1 == IF e.CY < e.RowOffset THEN e.CY ELSE e.RowOffset
        ro2 == IF e.CY >= ro1 + e.ScreenRows THEN e.CY - e.ScreenRows + 1 ELSE ro1
        co1 == IF rx < e.ColOffset THEN rx ELSE e.ColOffset
        co2 == IF rx >= co1 + e.ScreenCols THEN rx - e.ScreenCols + 1 ELSE co1
    IN [e EXCEPT !.RX = rx, !.RowOffset = ro2, !.ColOffset = co2]

\* MoveCursor without the snap of the column to the length of the new row.
MoveCursorNoClamp(e, k) ==
  LET n == Len(e.Rows)
  IN CASE k = "up" -> IF e.CY # 0 THEN [e EXCEPT !.CY = @ - 1] ELSE e
       [] k = "down" -> IF e.CY < n THEN [e EXCEPT !.CY = @ + 1] ELSE e
       [] k = "left" ->
            IF e.CX # 0 THEN [e EXCEPT !.CX = @ - 1]
            ELSE IF e.CY > 0
            THEN [e EXCEPT !.CY = e.CY - 1, !.CX = Len(e.Rows[e.CY].chars)]
            ELSE e
       [] k = "right" ->
            LET linelen == IF e.CY < n THEN Len(e.Rows[e.CY + 1].chars) ELSE -1
            IN IF linelen >= 0 /\ e.CX < linelen THEN [e EXCEPT !.CX = @ + 1]
               ELSE IF linelen >= 0 /\ e.CX = linelen
               THEN [e EXCEPT !.CY = @ + 1, !.CX = 0]
               ELSE e

\* Editor.MoveCursor(k), k one of "up", "down", "left", "right".
MoveCursor(e, k) ==
  LET n == Len(e.Rows)
      m == CASE k = "up" -> IF e.CY # 0 THEN [e EXCEPT !.CY = @ - 1] ELSE e
             [] k = "down" -> IF e.CY < n THEN [e EXCEPT !.CY = @ + 1] ELSE e
             [] k = "left" ->
                  IF e.CX # 0 THEN [e EXCEPT !.CX = @ - 1]
                  ELSE IF e.CY > 0
                  THEN [e EXCEPT !.CY = e.CY - 1, !.CX = Len(e.Rows[e.CY].chars)]
                  ELSE e
             [] k = "right" ->
                  LET linelen == IF e.CY < n THEN Len(e.Rows[e.CY + 1].chars) ELSE -1
                  IN IF linelen >= 0 /\ e.CX < linelen THEN [e EXCEPT !.CX = @ + 1]
                     ELSE IF linelen >= 0 /\ e.CX = linelen
                     THEN [e EXCEPT !.CY = @ + 1, !.CX = 0]
                     ELSE e
      linelen2 == IF m.CY < n THEN Len(m.Rows[m.CY + 1].chars) ELSE 0
  IN IF m.CX > linelen2 THEN [m EXCEPT !.CX = linelen2] ELSE m

RECURSIVE MoveCursorTimes(_, _, _)
MoveCursorTimes(e, k, times) ==
  IF times <= 0 THEN e ELSE MoveCursorTimes(MoveCursor(e, k), k, times - 1)

\* ------------------------------------------------------------ edit commands
\* The end of InsertNewline: the cursor goes to the start of the next row.
NextLine(e) == [e EXCEPT !.CY = @ + 1, !.CX = 0]

\* InsertNewline, editor.go:672-674: the row at cy keeps its first cx characters.
Truncated(e, cy, cx) ==
  IF ~e.ok THEN e
  ELSE UpdateRow(e, cy + 1, [e.Rows[cy + 1] EXCEPT !.chars = SubSeq(@, 1, cx)]).e

\* Editor.InsertNewline
InsertNewline(e) ==
  IF e.CX = 0 THEN NextLine(InsertRow(e, e.CY, <<>>))
  ELSE IF e.CY >= Len(e.Rows) THEN Panic(e)
  ELSE NextLine(Truncated(InsertRow(e, e.CY + 1, Drop(e.Rows[e.CY + 1].chars, e.CX)),
                          e.CY, e.CX))

\* InsertChar, editor.go:933-937: c goes into the row of the cursor.
Typed(e, c) ==
  IF ~e.ok THEN e
  ELSE IF e.CY >= Len(e.Rows) THEN Panic(e)
  ELSE [UpdateRow(e, e.CY + 1,
                  [e.Rows[e.CY + 1] EXCEPT !.chars = RowInsertChar(@, e.CX, c)]).e
          EXCEPT !.CX = @ + 1, !.Dirty = @ + 1]

\* Editor.InsertChar(c)
InsertChar(e, c) ==
  Typed(IF e.CY = Len(e.Rows) THEN InsertRow(e, Len(e.Rows), <<>>) ELSE e, c)

\* DeleteChar, editor.go:958-959: the row of the cursor, appended to the row
\* before it, is removed.
Joined(e) ==
  IF ~e.ok THEN e ELSE [DeleteRow(e, e.CY) EXCEPT !.CY = @ - 1]

\* Editor.DeleteChar
DeleteChar(e) ==
  IF e.CY = Len(e.Rows) THEN e
  ELSE IF e.CX = 0 /\ e.CY = 0 THEN e
  ELSE IF e.CY > Len(e.Rows) THEN Panic(e)
  ELSE IF e.CX > 0
  THEN [UpdateRow(e, e.CY + 1,
                  [e.Rows[e.CY + 1] EXCEPT !.chars = RowDeleteChar(@, e.CX - 1)]).e
          EXCEPT !.CX = @ - 1, !.Dirty = @ + 1]
  ELSE Joined(UpdateRow([e EXCEPT !.CX = Len(e.Rows[e.CY].chars)], e.CY,
                        [e.Rows[e.CY] EXCEPT !.chars = @ \o e.Rows[e.CY + 1].chars]).e)

\* The ctrl-d case of Editor.ProcessKey: the row is cut out of the slice.
DeleteLine(e) ==
  LET rows1 == IF e.CY < Len(e.Rows)
               THEN SubSeq(e.Rows, 1, e.CY) \o Drop(e.Rows, e.CY + 1)
               ELSE e.Rows
  IN IF e.CY > 0
     THEN [e EXCEPT !.Rows = rows1, !.CY = e.CY - 1, !.CX = Len(rows1[e.CY].chars)]
     ELSE [e EXCEPT !.Rows = rows1, !.CX = 0]

\* The keyDelete case of Editor.ProcessKey.
ForwardDelete(e) ==
  IF e.CY = Len(e.Rows) - 1 /\ e.CX = Len(e.Rows[e.CY + 1].chars) THEN e
  ELSE DeleteChar(MoveCursor(e, "right"))

\* The keyPageUp and keyPageDown cases of Editor.ProcessKey.
PageUp(e) == MoveCursorTimes([e EXCEPT !.CY = e.RowOffset], "up", e.ScreenRows)

PageDown(e) ==
  MoveCursorTimes([e EXCEPT !.CY = Min(e.RowOffset + e.ScreenRows - 1, Len(e.Rows))],
                  "down", e.ScreenRows)

\* The keyHome and keyEnd cases of Editor.ProcessKey.
Home(e) == [e EXCEPT !.CX = 0]

End(e) ==
  IF e.CY < Len(e.Rows) THEN [e EXCEPT !.CX = Len(e.Rows[e.CY + 1].chars)] ELSE e

\* -------------------------------------------------------------------- save
\* The file-name patterns of the "c" syntax: ".c", ".h", "cpp", ".cc".
SyntaxFor(name) == IF name \in {"f.c", "f.h", "f.cc", "f.cpp"} THEN SyntaxC ELSE NoSyntax

\* The loop of SelectSyntaxHighlight: UpdateHighlight on every row, in order.
RECURSIVE HighlightAll(_, _)
HighlightAll(e, p) ==
  IF p > Len(e.Rows) \/ ~e.ok THEN e
  ELSE HighlightAll(UpdateHighlight(e, p, e.Rows[p]).e, p + 1)

\* Editor.SelectSyntaxHighlight
SelectSyntaxHighlight(e) ==
  IF e.Filename = "" \/ SyntaxFor(e.Filename) = NoSyntax
  THEN [e EXCEPT !.Syntax = NoSyntax]
  ELSE HighlightAll([e EXCEPT !.Syntax = SyntaxFor(e.Filename)], 1)

\* Editor.Save: name is what the "Save as" prompt returns when the file has no
\* name ("" when the prompt is cancelled), ioOk whether the file is opened and
\* written without error.
\* Save setting the modified counter to 0 whether or not the write succeeded.
WrittenAnyway(e, ioOk) == IF e.ok THEN [e EXCEPT !.Dirty = 0] ELSE e

Written(e, ioOk) == IF ioOk /\ e.ok THEN [e EXCEPT !.Dirty = 0] ELSE e

Save(e, name, ioOk) ==
  IF e.Filename = "" /\ name = "" THEN e
  ELSE Written(IF e.Filename = ""
               THEN SelectSyntaxHighlight([e EXCEPT !.Filename = name])
               ELSE e,
               ioOk)

\* The three ways the ctrl-s case of ProcessKey ends (editor.go:256-266): the
\* prompt cancelled, an error of OpenFile or WriteString, the bytes written.
SaveOutcome(e, name, ioOk) ==
  IF e.Filename = "" /\ name = "" THEN "save-aborted"
  ELSE IF ioOk THEN "saved" ELSE "save-failed"

\* The rows joined by a newline between consecutive rows, none after the last.
RECURSIVE RowsJoined(_)
RowsJoined(rows) ==
  IF rows = <<>> THEN <<>>
  ELSE IF Len(rows) = 1 THEN Head(rows).chars
  ELSE Head(rows).chars \o <<"\n">> \o RowsJoined(Tail(rows))

\* Editor.RowsToString
RECURSIVE RowsToString(_)
RowsToString(rows) ==
  IF rows = <<>> THEN <<>> ELSE Head(rows).chars \o <<"\n">> \o RowsToString(Tail(rows))

\* ------------------------------------------------------------------ search
\* copy(dst, src) of Go.
CopyInto(dst, src) ==
  [i \in 1..Len(dst) |-> IF i <= Len(src) THEN src[i] ELSE dst[i]]

\* A match that leaves the row offset as it was.
MatchedNoSnap(e, f, query, c, rx, cx) ==
  IF cx = -1 \/ rx + Len(query) > Len(e.Rows[c + 1].hl)
  THEN [e |-> Panic(e), f |-> f]
  ELSE [ e |-> [e EXCEPT !.CY = c, !.CX = cx,
                          !.Rows[c + 1].hl = SetRange(@, rx, rx + Len(query), hlMatch)],
         f |-> [f EXCEPT !.lastMatchRowIndex = c, !.savedHlRowIndex = c,
                          !.savedHl = e.Rows[c + 1].hl] ]

\* A match at rendered offset rx of the row at 0-based position c
\* (editor.go:1024-1035); cx is what RowRxToCx gives for rx.
Matched(e, f, query, c, rx, cx) ==
  IF cx = -1 \/ rx + Len(query) > Len(e.Rows[c + 1].hl)
  THEN [e |-> Panic(e), f |-> f]
  ELSE [ e |-> [e EXCEPT !.CY = c, !.CX = cx, !.RowOffset = Len(e.Rows),
                          !.Rows[c + 1].hl = SetRange(@, rx, rx + Len(query), hlMatch)],
         f |-> [f EXCEPT !.lastMatchRowIndex = c, !.savedHlRowIndex = c,
                          !.savedHl = e.Rows[c + 1].hl] ]

\* The step of the search that stays on the first row instead of wrapping
\* from it to the last.
StepRowNoWrapBack(e, f, current) ==
  IF current + f.searchDirection = -1 THEN 0
  ELSE IF current + f.searchDirection = Len(e.Rows) THEN 0
  ELSE current + f.searchDirection

\* The row after `current` in the direction of the search, wrapping.
StepRow(e, f, current) ==
  IF current + f.searchDirection = -1 THEN Len(e.Rows) - 1
  ELSE IF current + f.searchDirection = Len(e.Rows) THEN 0
  ELSE current + f.searchDirection

RECURSIVE FindScan(_, _, _, _, _)

\* One turn of the scanning loop on the row at 0-based position c.
FindAt(e, f, query, i, c, rx) ==
  IF rx = -1 THEN FindScan(e, f, query, i + 1, c)
  ELSE Matched(e, f, query, c, rx, RowRxToCx(e.Rows[c + 1], rx, e.Config.TabStop))

FindIn(e, f, query, i, c) ==
  FindAt(e, f, query, i, c, StringsIndex(e.Rows[c + 1].render, query))

\* The scanning loop sending the cursor to the start of the buffer when no row
\* holds the query.
FindScanHome(e, f, query, i, current) ==
  IF i >= Len(e.Rows) THEN [e |-> [e EXCEPT !.CX = 0, !.CY = 0], f |-> f]
  ELSE FindIn(e, f, query, i, StepRow(e, f, current))

\* The scanning loop of onKeyPress (editor.go:1012-1038), i attempts made,
\* from row `current`; e the editor and f the locals of Find.
FindScan(e, f, query, i, current) ==
  IF i >= Len(e.Rows) THEN [e |-> e, f |-> f]
  ELSE FindIn(e, f, query, i, StepRow(e, f, current))

\* onKeyPress after the tags were restored: the key sets the direction and
\* the anchor of the search.
Anchored(f, k) ==
  CASE k = "next" ->
         [f EXCEPT !.searchDirection = 1]
    [] k = "prev" ->
         [f EXCEPT !.searchDirection = IF f.lastMatchRowIndex = -1 THEN 1 ELSE -1]
    [] OTHER ->
         [f EXCEPT !.lastMatchRowIndex = -1, !.searchDirection = 1]

Searched(e, f, query, k) ==
  IF k \in {"enter", "esc"}
  THEN [e |-> e, f |-> [f EXCEPT !.lastMatchRowIndex = -1, !.searchDirection = 1]]
  ELSE FindScan(e, Anchored(f, k), query, 0, Anchored(f, k).lastMatchRowIndex)

\* onKeyPress without the restore of the tags of the last match.
OnKeyPressNoRestore(e, f, query, k) == Searched(e, f, query, k)

\* The callback onKeyPress of Editor.Find; k is "enter", "esc", "next"
\* (right, down), "prev" (left, up) or "other".
OnKeyPress(e, f, query, k) ==
  IF Len(f.savedHl) > 0
  THEN Searched([e EXCEPT !.Rows[f.savedHlRowIndex + 1].hl = CopyInto(@, f.savedHl)],
                [f EXCEPT !.savedHl = <<>>], query, k)
  ELSE Searched(e, f, query, k)

\* The start of Editor.Find: the cursor and the offsets are saved.
FindStart(e) ==
  [FindIdle EXCEPT !.savedCx = e.CX, !.savedCy = e.CY,
                   !.savedColOffset = e.ColOffset, !.savedRowOffset = e.RowOffset,
                   !.hlBefore = [i \in 1..Len(e.Rows) |-> e.Rows[i].hl]]

\* The restore of Find without the two offsets.
FindRestoreCursorOnly(e, f) == [e EXCEPT !.CX = f.savedCx, !.CY = f.savedCy]

\* The end of Editor.Find after the prompt was cancelled.
FindRestore(e, f) ==
  [e EXCEPT !.CX = f.savedCx, !.CY = f.savedCy,
            !.ColOffset = f.savedColOffset, !.RowOffset = f.savedRowOffset]


\* ----------------------------------------------------------------- actions
\* L holds what a specification explores: the characters typed (Keys) and
\* searched for (QueryKeys), the names given to "Save as" (Names) and the
\* bounds on the rows, the query and the counters.
Bounded(L, e) ==
  /\ Len(e.Rows) <= L.MaxRows
  /\ \A i \in 1..Len(e.Rows) :
       Len(e.Rows[i].chars) <= L.MaxLen /\ e.Rows[i].idx <= L.MaxIdx
  /\ e.Dirty <= L.MaxDirty

\* The process has ended (os.Exit or a panic): nothing of the editor remains
\* but what the history needs.
Ended(to, cmd) ==
  /\ pc' = to /\ lastCmd' = cmd
  /\ Rows' = <<>> /\ CX' = 0 /\ CY' = 0 /\ RX' = 0 /\ RowOffset' = 0 /\ ColOffset' = 0
  /\ find' = FindIdle
  /\ quitRun' = IF cmd = "quit-request" THEN quitRun + 1 ELSE 0
  /\ UNCHANGED <<Dirty, QuitCounter, Filename, Syntax, Config, ScreenRows, ScreenCols>>

\* The handler leaves the editor as e, the program at `to` with Find's locals
\* f; a panic ends the program.
Commit(L, e, to, f, cmd) ==
  IF ~e.ok THEN Ended("panic", cmd)
  ELSE IF to = "exit" THEN Ended("exit", cmd)
  ELSE /\ Bounded(L, e)
       /\ Rows' = e.Rows /\ CX' = e.CX /\ CY' = e.CY /\ RX' = e.RX
       /\ RowOffset' = e.RowOffset /\ ColOffset' = e.ColOffset
       /\ Dirty' = e.Dirty /\ QuitCounter' = e.QuitCounter
       /\ Filename' = e.Filename /\ Syntax' = e.Syntax /\ Config' = e.Config
       /\ ScreenRows' = e.ScreenRows /\ ScreenCols' = e.ScreenCols
       /\ pc' = to /\ find' = f /\ lastCmd' = cmd
       /\ quitRun' = IF cmd = "quit-request" THEN quitRun + 1 ELSE 0

\* One turn of the loop of main starts with Render, which calls Scroll.
Rendered == Scroll(Ed)

\* ProcessKey has handled a key other than ctrl-q, leaving the editor as e,
\* and resets the quit counter.
Main(L, e, cmd) ==
  /\ pc = "main"
  /\ Commit(L, [e EXCEPT !.QuitCounter = 0], "main", FindIdle, cmd)

\* OpenFile: one line of the file is read and appended.
LoadRow(L, line) ==
  /\ pc = "load"
  /\ Len(Rows) < L.MaxRows
  /\ Commit(L, InsertRow(Ed, Len(Rows), line), "load", FindIdle, "load")

\* OpenFile: the end of the file (or no such file).
LoadDone(L) ==
  /\ pc = "load"
  /\ Commit(L, [Ed EXCEPT !.Dirty = 0], "main", FindIdle, "load")

KeyChar(L, c) == Main(L, InsertChar(Rendered, c), "key")

KeyEnter(L) == Main(L, InsertNewline(Rendered), "key")

KeyBackspace(L) == Main(L, DeleteChar(Rendered), "key")

KeyDelete(L) == Main(L, ForwardDelete(Rendered), "key")

KeyCtrlD(L) == Main(L, DeleteLine(Rendered), "key")

KeyArrow(L, k) == Main(L, MoveCursor(Rendered, k), "key")

KeyHome(L) == Main(L, Home(Rendered), "key")

KeyEnd(L) == Main(L, End(Rendered), "key")

KeyPageUp(L) == Main(L, PageUp(Rendered), "key")

KeyPageDown(L) == Main(L, PageDown(Rendered), "key")

\* ctrl-l and escape: nothing but the redraw.
KeyCtrlL(L) == Main(L, Rendered, "key")

KeyCtrlS(L, name, ioOk) ==
  Main(L, Save(Rendered, name, ioOk), SaveOutcome(Rendered, name, ioOk))

\* ctrl-q comparing the quit counter with <= where the code has <.
KeyCtrlQOffByOne(L) ==
  /\ pc = "main"
  /\ quitRun <= MaxQuitTimes
  /\ IF Rendered.Dirty > 0 /\ Rendered.QuitCounter <= Rendered.Config.QuitTimes
     THEN Commit(L, [Rendered EXCEPT !.QuitCounter = @ + 1], "main", FindIdle,
                 "quit-request")
     ELSE Commit(L, Rendered, "exit", FindIdle, "quit-request")

\* ctrl-q: counted while there are unsaved changes, else the loop of main ends.
KeyCtrlQ(L) ==
  /\ pc = "main"
  /\ quitRun <= MaxQuitTimes
  /\ IF Rendered.Dirty > 0 /\ Rendered.QuitCounter < Rendered.Config.QuitTimes
     THEN Commit(L, [Rendered EXCEPT !.QuitCounter = @ + 1], "main", FindIdle,
                 "quit-request")
     ELSE Commit(L, Rendered, "exit", FindIdle, "quit-request")

\* ctrl-f: Find saves the cursor and the prompt opens.
KeyCtrlF(L) ==
  /\ pc = "main"
  /\ Commit(L, Rendered, "find", FindStart(Rendered), "find")

\* The callback has left the editor and the locals of Find as r; the prompt
\* stays open.
Turned(L, r) == Commit(L, r.e, "find", r.f, "search-key")

\* One turn of the loop of Prompt with the callback of Find: Render, the key
\* edits the query, the callback runs on the query.
PromptTurn(L, query, k) ==
  /\ pc = "find"
  /\ Len(query) <= L.MaxQuery
  /\ Turned(L, OnKeyPress(Rendered, [find EXCEPT !.query = query], query, k))

PromptChar(L, c) == PromptTurn(L, Append(find.query, c), "other")

\* Delete, backspace, ctrl-h: the last character of the query is dropped.
PromptErase(L) == PromptTurn(L, SubSeq(find.query, 1, Len(find.query) - 1), "other")

PromptNext(L) == PromptTurn(L, find.query, "next")

PromptPrev(L) == PromptTurn(L, find.query, "prev")

\* Enter on an empty query: the callback runs and the prompt stays open.
PromptEnterEmpty(L) == find.query = <<>> /\ PromptTurn(L, find.query, "enter")

\* Enter on a query: the callback runs, Find returns, ProcessKey resets the
\* quit counter.
PromptConfirm(L) ==
  /\ pc = "find"
  /\ find.query # <<>>
  /\ Commit(L, [OnKeyPress(Rendered, find, find.query, "enter").e EXCEPT !.QuitCounter = 0],
            "main", FindIdle, "search-confirm")

\* The search has left the cursor or an offset away from what Find saved.
Moved(e, f) ==
  <<e.CX, e.CY, e.ColOffset, e.RowOffset>> #
    <<f.savedCx, f.savedCy, f.savedColOffset, f.savedRowOffset>>

Cancelled(L, r) ==
  Commit(L, [FindRestore(r.e, r.f) EXCEPT !.QuitCounter = 0], "main", FindIdle,
         IF Moved(r.e, r.f) THEN "search-cancel-moved" ELSE "search-cancel")

\* Escape: the callback runs, Find restores what it saved, ProcessKey resets
\* the quit counter.
PromptCancel(L) ==
  /\ pc = "find"
  /\ Cancelled(L, OnKeyPress(Rendered, find, find.query, "esc"))

\* ---------------------------------------------------------- specifications
\* All sequences over K of length at most n.
RECURSIVE SeqsUpTo(_, _)
SeqsUpTo(K, n) ==
  IF n = 0 THEN {<<>>}
  ELSE LET shorter == SeqsUpTo(K, n - 1)
       IN shorter \cup {Append(s, c) : s \in shorter, c \in K}

\* The state when main starts: no rows yet; with a file name on the command
\* line OpenFile has set the name and selected the syntax.
InitWith(names, configs, screens) ==
  /\ Rows = <<>> /\ CX = 0 /\ CY = 0 /\ RX = 0 /\ RowOffset = 0 /\ ColOffset = 0
  /\ Dirty = 0 /\ QuitCounter = 0
  /\ Filename \in names
  /\ Syntax = SyntaxFor(Filename)
  /\ Config \in configs
  /\ \E sc \in screens : ScreenRows = sc[1] /\ ScreenCols = sc[2]
  /\ pc = IF Filename = "" THEN "main" ELSE "load"
  /\ find = FindIdle
  /\ lastCmd = "none"
  /\ quitRun = 0

\* The commands of the editor within L.
NextWith(L) ==
  \/ \E line \in SeqsUpTo(L.Keys, L.MaxLen) : LoadRow(L, line)
  \/ LoadDone(L)
  \/ \E c \in L.Keys : KeyChar(L, c)
  \/ KeyEnter(L)
  \/ KeyBackspace(L)
  \/ KeyDelete(L)
  \/ KeyCtrlD(L)
  \/ \E k \in {"up", "down", "left", "right"} : KeyArrow(L, k)
  \/ KeyHome(L)
  \/ KeyEnd(L)
  \/ KeyPageUp(L)
  \/ KeyPageDown(L)
  \/ KeyCtrlL(L)
  \/ \E name \in L.Names \cup {""}, ioOk \in BOOLEAN : KeyCtrlS(L, name, ioOk)
  \/ KeyCtrlQ(L)
  \/ KeyCtrlF(L)
  \/ \E c \in L.QueryKeys : PromptChar(L, c)
  \/ PromptErase(L)
  \/ PromptNext(L)
  \/ PromptPrev(L)
  \/ PromptEnterEmpty(L)
  \/ PromptConfirm(L)
  \/ PromptCancel(L)

\* The default configuration file: tab_stop 4, quit_times 1.
DefaultConfig == [TabStop |-> 4, QuitTimes |-> 1]

\* A terminal of 24 lines and 80 columns: Editor.Init keeps two lines for the bars.
Terminal == <<22, 80>>

\* Editing a C file: comment markers typed, cut and searched.
EditLimits ==
  [ Keys |-> {"/", "*"}, QueryKeys |-> {"*"}, Names |-> {"f.c"},
    MaxRows |-> MaxRows, MaxLen |-> MaxLen, MaxIdx |-> MaxIdx,
    MaxQuery |-> MaxQuery, MaxDirty |-> MaxDirty ]

Init == InitWith({"f.c"}, {DefaultConfig}, {Terminal})

Next == NextWith(EditLimits)

Spec == Init /\ [][Next]_vars

\* ------------------------------------------------------ claims under Spec
\* The tags and the carried comment state of every row when the whole buffer
\* is highlighted from the first row down, each row starting from the state
\* its predecessor ends in.
RECURSIVE FreshScan(_, _, _, _)

FreshCons(S, rows, i, res) == <<res>> \o FreshScan(S, rows, i + 1, res.inComment)

FreshScan(S, rows, i, carried) ==
  IF i > Len(rows) THEN <<>>
  ELSE FreshCons(S, rows, i, HighlightOf(S, rows[i].render, carried))

AgreesWith(rows, fresh) ==
  \A i \in 1..Len(rows) :
    /\ rows[i].hl = fresh[i].hl
    /\ rows[i].hasUnclosedComment = fresh[i].inComment

\* C2: with a syntax active and no search open, every row's tags and its
\* open-block-comment flag are those of a highlight of the whole buffer from
\* scratch.
HighlightIsFresh ==
  (pc = "main" /\ Syntax # NoSyntax) => AgreesWith(Rows, FreshScan(Syntax, Rows, 1, FALSE))

\* C3: every row's stored index is its position in the row list.
IdxIsPosition == \A i \in 1..Len(Rows) : Rows[i].idx = i - 1

\* C4: no command sequence ends the editor in a fatal condition (an index out
\* of range or the "unreachable" panic).
NoFatalCondition == pc # "panic"

Contents(rows) == [i \in 1..Len(rows) |-> rows[i].chars]

\* C5: a command that changes what the rows hold increments the modified
\* counter.
ContentChangeCounts ==
  [][(pc = "main" /\ pc' = "main" /\ Contents(Rows') # Contents(Rows))
       => Dirty' > Dirty]_vars

\* The rows whose characters the step changes.
EditedRows == {i \in 1..Len(Rows) : i <= Len(Rows') /\ Rows'[i].chars # Rows[i].chars}

\* The step inserts or deletes one character inside one row.
SingleCharEdit ==
  /\ pc = "main" /\ pc' = "main"
  /\ Len(Rows') = Len(Rows)
  /\ Cardinality(EditedRows) = 1
  /\ \A i \in EditedRows :
       Len(Rows'[i].chars) - Len(Rows[i].chars) \in {-1, 1}

CarriedChanged(i) == Rows'[i].hasUnclosedComment # Rows[i].hasUnclosedComment

\* Row j is, after the step, tagged from the state its predecessor now carries.
Retagged(j) ==
  /\ Rows'[j].hl =
       HighlightOf(Syntax, Rows'[j].render, Rows'[j - 1].hasUnclosedComment).hl
  /\ Rows'[j].hasUnclosedComment =
       HighlightOf(Syntax, Rows'[j].render, Rows'[j - 1].hasUnclosedComment).inComment

\* C9: when a single-character edit in row r changes the comment state r
\* carries, the next row is re-tagged, and so is every following row as long
\* as the carried state of the row before it has changed.
CascadeRetags ==
  [][(SingleCharEdit /\ Syntax # NoSyntax)
       => \A r \in EditedRows : \A j \in (r + 1)..Len(Rows) :
            (\A k \in r..(j - 1) : CarriedChanged(k)) => Retagged(j)]_vars

\* -------------------------------------------------- claims under SpecQuit
\* One character typed, saved and searched, under every quit_times up to
\* MaxQuitTimes.
QuitLimits ==
  [ Keys |-> {"a"}, QueryKeys |-> {"a"}, Names |-> {"f.c"},
    MaxRows |-> MaxRows, MaxLen |-> MaxLen, MaxIdx |-> MaxIdx,
    MaxQuery |-> MaxQuery, MaxDirty |-> MaxDirty ]

QuitConfigs == {[TabStop |-> 4, QuitTimes |-> n] : n \in 0..MaxQuitTimes}

InitQuit == InitWith({"f.c"}, QuitConfigs, {Terminal})

NextQuit == NextWith(QuitLimits)

SpecQuit == InitQuit /\ [][NextQuit]_vars

\* C6: with unsaved modifications and quit_times = N, a quit request ends the
\* editor exactly when the N commands immediately before it were all quit
\* requests (quitRun counts the quit requests since the last other command).
QuitAfterNRequests ==
  [][(pc = "main" /\ lastCmd' = "quit-request" /\ Dirty > 0)
       => ((pc' = "exit") <=> (quitRun >= Config.QuitTimes))]_vars

\* The editor has ended with unsaved modifications on the quit request that
\* followed MaxQuitTimes others, under quit_times = MaxQuitTimes.
QuitAfterNRequestsWitness ==
  /\ pc = "exit" /\ Dirty > 0
  /\ Config.QuitTimes = MaxQuitTimes
  /\ quitRun = MaxQuitTimes + 1

\* --------------------------------------------------- claims under SpecTab
\* Tabs and a letter typed, the letter searched for, in a C file or in a
\* buffer that has no name until it is saved.
TabLimits ==
  [ Keys |-> {"a", TAB}, QueryKeys |-> {"a"}, Names |-> {"f.c"},
    MaxRows |-> MaxRows, MaxLen |-> MaxLen, MaxIdx |-> MaxIdx,
    MaxQuery |-> MaxQuery, MaxDirty |-> MaxDirty ]

InitTab == InitWith({"", "f.c"}, {DefaultConfig}, {Terminal})

NextTab == NextWith(TabLimits)

SpecTab == InitTab /\ [][NextTab]_vars

\* C1: after every command, search included, each row has exactly one tag
\* for each character of its rendered text.
HlLengthIsRenderLength ==
  \A i \in 1..Len(Rows) : Len(Rows[i].hl) = Len(Rows[i].render)

\* A search is open on a row whose tab is rendered as several spaces and
\* whose match carries the match tag.
HlLengthIsRenderLengthWitness ==
  /\ pc = "find"
  /\ \E i \in 1..Len(Rows) :
       /\ Len(Rows[i].render) > Len(Rows[i].chars)
       /\ \E j \in 1..Len(Rows[i].hl) : Rows[i].hl[j] = hlMatch

\* What Find has saved of the cursor and the offsets, and what they are now.
SavedView == <<find.savedCx, find.savedCy, find.savedColOffset, find.savedRowOffset>>

View == <<CX, CY, ColOffset, RowOffset>>

\* C8: a cancelled search puts the cursor column, the cursor row and both
\* offsets back to what they were when the search began: Find saves them as
\* it begins, keeps what it saved while the prompt is open, and the cancel
\* sets them from it.
CancelRestoresView ==
  [][/\ (pc = "main" /\ pc' = "find") => SavedView' = View'
     /\ (pc = "find" /\ pc' = "find") => SavedView' = SavedView
     /\ (pc = "find" /\ pc' = "main"
           /\ lastCmd' \in {"search-cancel", "search-cancel-moved"})
          => View' = SavedView]_vars

\* A search that had moved the cursor or an offset has been cancelled.
CancelRestoresViewWitness == pc = "main" /\ lastCmd = "search-cancel-moved"

\* -------------------------------------------------- claims under SpecFind
\* A letter and a character of several bytes typed, the letter searched for.
FindLimits ==
  [ Keys |-> {"a", "W"}, QueryKeys |-> {"a"}, Names |-> {"f.c"},
    MaxRows |-> MaxRows, MaxLen |-> MaxLen, MaxIdx |-> MaxIdx,
    MaxQuery |-> MaxQuery, MaxDirty |-> MaxDirty ]

InitFind == InitWith({"f.c"}, {DefaultConfig}, {Terminal})

NextFind == NextWith(FindLimits)

SpecFind == InitFind /\ [][NextFind]_vars

\* The rendered text of the row holds the query.
Holds(row, query) ==
  \E i \in 1..(Len(row.render) - Len(query) + 1) :
    SubSeq(row.render, i, i + Len(query) - 1) = query

\* The rows (0-based) in the order a forward search visits them after a
\* match in row m, or from no match when m = -1.
ForwardOrder(m) == [k \in 1..Len(Rows) |-> (m + k) % Len(Rows)]

Least(S) == CHOOSE x \in S : \A y \in S : x <= y

\* The first row holding the query in that order.
ForwardMatch(m, query) ==
  ForwardOrder(m)[Least({k \in 1..Len(Rows) : Holds(Rows[ForwardOrder(m)[k] + 1], query)})]

SomeRowHolds(query) == \E i \in 1..Len(Rows) : Holds(Rows[i], query)

\* C7: with some row holding the query, a newly typed query is found in the
\* lowest such row, and each forward step on a fixed query moves to the next
\* such row in increasing order, wrapping from the last row to the first.
SearchVisitsRowsInOrder ==
  [][/\ \A c \in FindLimits.QueryKeys :
          (PromptChar(FindLimits, c) /\ SomeRowHolds(Append(find.query, c)))
            => /\ pc' = "find"
               /\ CY' = ForwardMatch(-1, Append(find.query, c))
               /\ find'.lastMatchRowIndex = CY'
     /\ (PromptNext(FindLimits) /\ find.query # <<>> /\ SomeRowHolds(find.query))
          => /\ pc' = "find"
             /\ CY' = ForwardMatch(find.lastMatchRowIndex, find.query)
             /\ find'.lastMatchRowIndex = CY']_vars

\* ---------------------------------------------------- claims under SpecHL
\* The highlighter on every row of at most MaxHlLen characters of HlKeys,
\* read from a C file as its second line, after a first line that is empty
\* or opens a block comment.
HlKeys == {"i", "n", "t", "x", SPACE, QUOTE, "/", "*"}

HlLimits ==
  [ Keys |-> HlKeys, QueryKeys |-> {}, Names |-> {},
    MaxRows |-> MaxRows, MaxLen |-> MaxHlLen, MaxIdx |-> MaxIdx,
    MaxQuery |-> MaxQuery, MaxDirty |-> MaxDirty ]

HlLines ==
  IF Rows = <<>> THEN {<<>>, SyntaxC.MCS}
  ELSE IF Len(Rows) = 1 THEN SeqsUpTo(HlKeys, MaxHlLen)
  ELSE {}

InitHL == InitWith({"f.c"}, {DefaultConfig}, {Terminal})

NextHL ==
  \/ \E line \in HlLines : LoadRow(HlLimits, line)
  \/ LoadDone(HlLimits)

SpecHL == InitHL /\ [][NextHL]_vars

KeywordTags == {hlKeyword1, hlKeyword2}

\* The maximal runs a..b of keyword tags of a row.
KeywordRuns(row) ==
  {ab \in (1..Len(row.hl)) \X (1..Len(row.hl)) :
     /\ ab[1] <= ab[2]
     /\ \A j \in ab[1]..ab[2] : row.hl[j] \in KeywordTags
     /\ (ab[1] = 1 \/ row.hl[ab[1] - 1] \notin KeywordTags)
     /\ (ab[2] = Len(row.hl) \/ row.hl[ab[2] + 1] \notin KeywordTags)}

IsKeywordText(S, text) == \E k \in 1..Len(S.Keywords) : KwText(S.Keywords[k]) = text

SeparatorBefore(row, a) == a = 1 \/ IsSeparator(row.render[a - 1])

SeparatorAfter(row, b) == b = Len(row.render) \/ IsSeparator(row.render[b + 1])

\* The character before a is the last of a string or of a block comment.
StringOrCommentBefore(row, a) == a > 1 /\ row.hl[a - 1] \in {hlString, hlMlComment}

\* C10 as stated: a run of keyword tags is a keyword with a separator or the
\* row boundary on both sides, also right after a closing quote or a
\* block-comment end marker.
KeywordBetweenSeparators ==
  \A i \in 1..Len(Rows) : \A ab \in KeywordRuns(Rows[i]) :
    /\ IsKeywordText(Syntax, SubSeq(Rows[i].render, ab[1], ab[2]))
    /\ SeparatorBefore(Rows[i], ab[1])
    /\ SeparatorAfter(Rows[i], ab[2])

\* C10 amended: a run of keyword tags is a keyword followed by a separator or
\* the row boundary, and preceded by a separator, the row boundary, or the
\* last character of a string literal or of a block comment.
KeywordAfterSeparatorOrString ==
  \A i \in 1..Len(Rows) : \A ab \in KeywordRuns(Rows[i]) :
    /\ IsKeywordText(Syntax, SubSeq(Rows[i].render, ab[1], ab[2]))
    /\ SeparatorBefore(Rows[i], ab[1]) \/ StringOrCommentBefore(Rows[i], ab[1])
    /\ SeparatorAfter(Rows[i], ab[2])

\* A keyword is tagged right after the closing quote of a string.
KeywordAfterSeparatorOrStringWitness ==
  \E i \in 1..Len(Rows) : \E ab \in KeywordRuns(Rows[i]) :
    /\ ab[1] > 1
    /\ Rows[i].hl[ab[1] - 1] = hlString
    /\ Rows[i].render[ab[1] - 1] = QUOTE

\* -------------------------------------------------- claims under SpecRace
\* The two goroutines of main beside the loop of main. They take no lock, so
\* they run between any two statements of a handler; the ctrl-d handler is
\* split here after its first statement.

\* ctrl-d up to editor.go:281: Render, then the row is cut out of the slice.
CtrlDCut(L) ==
  /\ pc = "main"
  /\ Commit(L, [Rendered EXCEPT !.Rows = DeleteLine(Rendered).Rows], "cut", FindIdle, "key")

\* ctrl-d from editor.go:282: the cursor is set, ProcessKey resets the quit
\* counter.
CtrlDRest(L) ==
  /\ pc = "cut"
  /\ Commit(L, [Ed EXCEPT !.QuitCounter = 0,
                          !.CY = IF CY > 0 THEN CY - 1 ELSE CY,
                          !.CX = IF CY > 0 THEN Len(Rows[CY].chars) ELSE 0],
            "main", FindIdle, "key")

\* The poller has called Render, whose Scroll left the editor as s.
Polled(s) ==
  IF ~s.ok THEN Ended("panic", "redraw")
  ELSE /\ RX' = s.RX /\ RowOffset' = s.RowOffset /\ ColOffset' = s.ColOffset
       /\ UNCHANGED <<Rows, CX, CY, Dirty, QuitCounter, Filename, Syntax, Config,
                      ScreenRows, ScreenCols, pc, find, lastCmd, quitRun>>

\* One turn of the redraw poller (cookie.go:137-146): the screen size is read
\* again and Render runs on the editor as it stands.
Poll == pc \in {"main", "find", "cut"} /\ Polled(Scroll(Ed))

\* One turn of the configuration reloader (cookie.go:102-119).
Reload(configs) ==
  /\ pc \in {"main", "find", "cut"}
  /\ Config' \in configs
  /\ UNCHANGED <<Rows, CX, CY, RX, RowOffset, ColOffset, Dirty, QuitCounter, Filename,
                 Syntax, ScreenRows, ScreenCols, pc, find, lastCmd, quitRun>>

RaceLimits ==
  [ Keys |-> {"a"}, QueryKeys |-> {"a"}, Names |-> {"f.c"},
    MaxRows |-> MaxRows, MaxLen |-> MaxLen, MaxIdx |-> MaxIdx,
    MaxQuery |-> MaxQuery, MaxDirty |-> MaxDirty ]

\* The configuration file as it is and as the user may rewrite it.
RaceConfigs == {DefaultConfig, [TabStop |-> 8, QuitTimes |-> 1]}

InitRace == InitWith({"f.c"}, {DefaultConfig}, {Terminal})

NextRace ==
  \/ NextWith(RaceLimits)
  \/ CtrlDCut(RaceLimits)
  \/ CtrlDRest(RaceLimits)
  \/ Poll
  \/ Reload(RaceConfigs)

SpecRace == InitRace /\ [][NextRace]_vars

\* The cursor is on a row or at the append position, and within its row.
CursorInBounds ==
  /\ 0 <= CY /\ CY <= Len(Rows)
  /\ 0 <= CX
  /\ IF CY < Len(Rows) THEN CX <= Len(Rows[CY + 1].chars) ELSE CX = 0

\* C11: whenever the redraw poller or the configuration reloader runs, the
\* editor is between two complete commands and its cursor is in bounds.
BackgroundSeesWholeCommands ==
  [][(Poll \/ Reload(RaceConfigs)) => (pc # "cut" /\ CursorInBounds)]_vars

\* C11, the part on the state alone: the redraw poller never finds the cursor
\* out of bounds.
PollerSeesCursorInBounds == [][Poll => CursorInBounds]_vars

\* -------------------------------------------------- claims under SpecCols
\* The column mappings and the rendering on every row of at most MaxColLen
\* characters among a letter, a tab and a character two columns wide, read
\* from a file of one line, under two tab-stop widths.
ColKeys == {"a", TAB, "W"}

ColLimits ==
  [ Keys |-> ColKeys, QueryKeys |-> {}, Names |-> {},
    MaxRows |-> MaxRows, MaxLen |-> MaxColLen, MaxIdx |-> MaxIdx,
    MaxQuery |-> MaxQuery, MaxDirty |-> MaxDirty ]

ColConfigs == {[TabStop |-> t, QuitTimes |-> 1] : t \in {2, 4}}

ColLines == IF Rows = <<>> THEN SeqsUpTo(ColKeys, MaxColLen) ELSE {}

InitCols == InitWith({"f.c"}, ColConfigs, {Terminal})

NextCols ==
  \/ \E line \in ColLines : LoadRow(ColLimits, line)
  \/ LoadDone(ColLimits)

SpecCols == InitCols /\ [][NextCols]_vars

\* The rendered width of the row by the logical-to-rendered mapping.
Width(row) == RowCxToRx(row, Len(row.chars), Config.TabStop)

\* C12 as stated: every rendered column below the width of the row comes
\* back unchanged from RowRxToCx followed by RowCxToRx.
ColumnRoundTrip ==
  \A i \in 1..Len(Rows) : \A col \in 0..(Width(Rows[i]) - 1) :
    RowCxToRx(Rows[i], RowRxToCx(Rows[i], col, Config.TabStop), Config.TabStop) = col

\* The character at cx covers the rendered column col.
Covers(row, cx, col) ==
  /\ 0 <= cx /\ cx < Len(row.chars)
  /\ RowCxToRx(row, cx, Config.TabStop) <= col
  /\ col < RowCxToRx(row, cx + 1, Config.TabStop)

\* C12 amended: RowRxToCx gives the character that covers the column, so the
\* trip comes back to the column where that character starts, which is col
\* exactly when a character starts at col; a further trip changes nothing.
ColumnRoundTripToCharStart ==
  \A i \in 1..Len(Rows) : \A col \in 0..(Width(Rows[i]) - 1) :
    /\ Covers(Rows[i], RowRxToCx(Rows[i], col, Config.TabStop), col)
    /\ RowRxToCx(Rows[i],
                 RowCxToRx(Rows[i], RowRxToCx(Rows[i], col, Config.TabStop), Config.TabStop),
                 Config.TabStop)
         = RowRxToCx(Rows[i], col, Config.TabStop)

\* A row is loaded in which a letter comes after a tab and after a wide
\* character: some columns fall inside a character.
ColumnRoundTripToCharStartWitness ==
  /\ pc = "main"
  /\ \E i \in 1..Len(Rows) :
       /\ \E j \in 1..Len(Rows[i].chars) : Rows[i].chars[j] = TAB
       /\ \E j \in 1..Len(Rows[i].chars) : Rows[i].chars[j] = "W"
       /\ Width(Rows[i]) > Len(Rows[i].chars)

SingleWidth(row) == \A j \in 1..Len(row.chars) : RuneWidth(row.chars[j]) = 1

\* C13: in a row of single-width characters the rendered text of the first
\* cx characters is RowCxToRx(row, cx) characters long, for every cx, and the
\* rendered text of the row is that of all its characters.
RenderMatchesColumns ==
  \A i \in 1..Len(Rows) :
    SingleWidth(Rows[i]) =>
      /\ Rows[i].render = RenderOf(Rows[i].chars, Config.TabStop)
      /\ \A cx \in 0..Len(Rows[i].chars) :
           Len(RenderOf(SubSeq(Rows[i].chars, 1, cx), Config.TabStop))
             = RowCxToRx(Rows[i], cx, Config.TabStop)

\* ------------------------------------------- further claims under SpecTab
\* The turns of the search prompt, each the query after the key and the key.
SearchTurns(L) ==
  {<<Append(find.query, c), "other">> : c \in L.QueryKeys}
    \cup {<<SubSeq(find.query, 1, Len(find.query) - 1), "other">>,
          <<find.query, "next">>, <<find.query, "prev">>}

\* C14: a search keystroke whose query is in no row raises no error and
\* leaves the cursor and both offsets as the redraw before the key left them.
NoMatchKeepsView ==
  [][\A t \in SearchTurns(TabLimits) :
       (PromptTurn(TabLimits, t[1], t[2]) /\ ~SomeRowHolds(t[1]))
         => /\ pc' = "find"
            /\ CX' = CX /\ CY' = CY
            /\ RowOffset' = Rendered.RowOffset /\ ColOffset' = Rendered.ColOffset]_vars

\* A key of the search prompt has left a query that no row holds, with the
\* cursor away from the start of its row.
NoMatchKeepsViewWitness ==
  /\ pc = "find" /\ lastCmd = "search-key"
  /\ find.query # <<>> /\ Rows # <<>>
  /\ ~SomeRowHolds(find.query)
  /\ CX > 0

\* Save has come to its call of os.OpenFile (editor.go:611): the prompt, if
\* there was one, gave a name, and SelectSyntaxHighlight returned.
ReachesOpenFile(name) ==
  /\ ~(Filename = "" /\ name = "")
  /\ Save(Rendered, name, FALSE).ok

\* C15: a save that does not succeed (the prompt for the name cancelled, or
\* the file not opened or not written) leaves the contents of the rows and
\* the modified counter as they were, and a cancelled prompt leaves the
\* filename unset.
FailedSaveKeepsBuffer ==
  [][/\ \A ioOk \in BOOLEAN :
          (Filename = "" /\ KeyCtrlS(TabLimits, "", ioOk))
            => /\ pc' = "main"
               /\ Contents(Rows') = Contents(Rows)
               /\ Dirty' = Dirty
               /\ Filename' = ""
     /\ \A name \in TabLimits.Names \cup {""} :
          (ReachesOpenFile(name) /\ KeyCtrlS(TabLimits, name, FALSE))
            => /\ pc' = "main"
               /\ Contents(Rows') = Contents(Rows)
               /\ Dirty' = Dirty]_vars

\* A save has failed on a buffer with unsaved changes.
FailedSaveKeepsBufferWitness ==
  /\ pc = "main" /\ lastCmd = "save-failed"
  /\ Dirty > 0 /\ Rows # <<>>

\* The number of newline characters in a text.
Newlines(text) == Cardinality({i \in 1..Len(text) : text[i] = "\n"})

\* The place in the written text where row i (from 1) begins, every row
\* before it taking its length and one newline.
RECURSIVE StartOf(_, _)
StartOf(rows, i) ==
  IF i = 1 THEN 1 ELSE StartOf(rows, i - 1) + Len(rows[i - 1].chars) + 1

\* The text holds the contents of every row in order, one newline after each
\* row but the last.
RowsInOrder(text, rows) ==
  /\ \A i \in 1..Len(rows) :
       /\ StartOf(rows, i) + Len(rows[i].chars) - 1 <= Len(text)
       /\ SubSeq(text, StartOf(rows, i), StartOf(rows, i) + Len(rows[i].chars) - 1)
            = rows[i].chars
  /\ \A i \in 1..(Len(rows) - 1) :
       text[StartOf(rows, i) + Len(rows[i].chars)] = "\n"

\* A save has just written the buffer, which it leaves as it wrote it.
JustSaved == pc = "main" /\ lastCmd = "saved"

CursorStaysInBounds ==
  pc = "main"
    => /\ 0 <= CY /\ CY <= Len(Rows)
       /\ 0 <= CX
       /\ CY < Len(Rows) => CX <= Len(Rows[CY + 1].chars)
       /\ CY = Len(Rows) => CX = 0

\* After a key of the main loop the cursor is at the end of the second row,
\* which is shorter than the first.
CursorStaysInBoundsWitness ==
  /\ pc = "main" /\ lastCmd = "key"
  /\ Len(Rows) = 2 /\ CY = 1
  /\ Len(Rows[2].chars) < Len(Rows[1].chars)
  /\ CX = Len(Rows[2].chars)

\* ---------------------------------------------------------------- SpecView
\* The editor on screens of one or two rows and columns, so that the cursor
\* leaves the window on every side.
ViewLimits ==
  [ Keys |-> {"a"}, QueryKeys |-> {"a"}, Names |-> {},
    MaxRows |-> MaxRows, MaxLen |-> MaxLen, MaxIdx |-> MaxIdx,
    MaxQuery |-> MaxQuery, MaxDirty |-> MaxDirty ]

\* The text area of small terminals, as rows and columns.
SmallScreens == {<<1, 1>>, <<2, 2>>}

InitView == InitWith({"f.c"}, {DefaultConfig}, SmallScreens)

NextView == NextWith(ViewLimits)

SpecView == InitView /\ [][NextView]_vars

\* The cursor of s is inside the window of s.
InWindow(s) ==
  /\ s.RowOffset <= s.CY /\ s.CY < s.RowOffset + s.ScreenRows
  /\ s.ColOffset <= s.RX /\ s.RX < s.ColOffset + s.ScreenCols

\* The row offset of s is that of the editor before Scroll unless the cursor
\* was outside the window, above it or below it.
RowOffsetFollows(s) ==
  /\ (RowOffset <= CY /\ CY < RowOffset + ScreenRows) => s.RowOffset = RowOffset
  /\ CY < RowOffset => s.RowOffset = CY
  /\ CY >= RowOffset + ScreenRows => s.RowOffset = CY - ScreenRows + 1

\* C18: after Scroll, on a screen of at least one row and one column, the
\* cursor is inside the window, and the row offset has changed only if the
\* cursor was outside: to the cursor row if it was above, to the cursor row
\* less the screen rows plus one if it was below.
ScrollShowsCursor ==
  (pc \in {"main", "find"} /\ ScreenRows >= 1 /\ ScreenCols >= 1)
    => /\ Rendered.ok
       /\ InWindow(Rendered)
       /\ RowOffsetFollows(Rendered)

\* A command has left the cursor below a window that an earlier Scroll had
\* moved to the right, and Scroll moves the window down to it.
ScrollShowsCursorWitness ==
  /\ pc = "main"
  /\ ColOffset > 0
  /\ CY >= RowOffset + ScreenRows
  /\ Rendered.RowOffset = CY - ScreenRows + 1

\* ------------------------------------------- further claims under SpecTab
\* No tag of the row is the tag of a search match.
NoMatchTag(row) == \A j \in 1..Len(row.hl) : row.hl[j] # hlMatch

\* C19: tags of a search match stay on no row but the last match: after a key
\* of the search every row other than the row of the current match has the
\* tags it had when the session began, and after the session has ended, by
\* confirm or by cancel, every row has them and no tag of a match is left.
MatchTagsDoNotPersist ==
  [][/\ (pc = "main" /\ pc' = "find")
          => find'.hlBefore = [i \in 1..Len(Rows) |-> Rows[i].hl]
     /\ (pc = "find" /\ pc' = "find")
          => /\ find'.hlBefore = find.hlBefore
             /\ Len(Rows') = Len(find.hlBefore)
             /\ \A i \in 1..Len(Rows') :
                  i # find'.lastMatchRowIndex + 1 => Rows'[i].hl = find.hlBefore[i]
     /\ (pc = "find" /\ pc' = "main")
          => /\ Len(Rows') = Len(find.hlBefore)
             /\ \A i \in 1..Len(Rows') :
                  Rows'[i].hl = find.hlBefore[i] /\ NoMatchTag(Rows'[i])]_vars

\* A search has tagged a match on the second row after one on the first, the
\* first row having no tag of a match any more.
MatchTagsDoNotPersistWitness ==
  /\ pc = "find" /\ lastCmd = "search-key"
  /\ Len(Rows) = 2
  /\ find.lastMatchRowIndex = 1
  /\ ~NoMatchTag(Rows[2])
  /\ Holds(Rows[1], find.query)
  /\ NoMatchTag(Rows[1])

\* ---------------------------------------------------------------- SpecSeek
\* The search for the letter b in a file of at most MaxRows lines of at most
\* MaxSeekLen characters among two letters and a tab.
SeekKeys == {"a", "b", TAB}

SeekLimits ==
  [ Keys |-> SeekKeys, QueryKeys |-> {"b"}, Names |-> {},
    MaxRows |-> MaxRows, MaxLen |-> MaxSeekLen, MaxIdx |-> MaxIdx,
    MaxQuery |-> MaxQuery, MaxDirty |-> MaxDirty ]

InitSeek == InitWith({"f.c"}, {DefaultConfig}, {Terminal})

NextSeek ==
  \/ \E line \in SeqsUpTo(SeekKeys, MaxSeekLen) : LoadRow(SeekLimits, line)
  \/ LoadDone(SeekLimits)
  \/ KeyCtrlF(SeekLimits)
  \/ \E c \in SeekLimits.QueryKeys : PromptChar(SeekLimits, c)
  \/ PromptErase(SeekLimits)
  \/ PromptNext(SeekLimits)
  \/ PromptPrev(SeekLimits)
  \/ PromptEnterEmpty(SeekLimits)
  \/ PromptConfirm(SeekLimits)
  \/ PromptCancel(SeekLimits)

SpecSeek == InitSeek /\ [][NextSeek]_vars

\* The logical index (from 0) of the character of the row at which the
\* leftmost occurrence of the query starts.
LeftmostStart(row, query) ==
  Least({i \in 0..(Len(row.chars) - Len(query)) :
           SubSeq(row.chars, i + 1, i + Len(query)) = query})

\* C20: a key of the search that finds a match puts the cursor on the matched
\* row, at the logical index of the character where the leftmost occurrence
\* of the query in that row starts, whatever the row holds before the match,
\* tabs included.
MatchSetsCursorToOccurrence ==
  [][\A t \in SearchTurns(SeekLimits) :
       (PromptTurn(SeekLimits, t[1], t[2]) /\ t[1] # <<>> /\ SomeRowHolds(t[1]))
         => /\ pc' = "find"
            /\ find'.lastMatchRowIndex \in 0..(Len(Rows) - 1)
            /\ CY' = find'.lastMatchRowIndex
            /\ Holds(Rows[CY' + 1], t[1])
            /\ CX' = LeftmostStart(Rows[CY' + 1], t[1])]_vars

\* ------------------------------------------ further claims under SpecView
\* C21: after a key of the search has found a match in row m, the next
\* Scroll leaves the row offset at m, the matched row being the first row of
\* the window, whatever the row offset was before the key.
MatchRowIsFirstVisible ==
  [][\A t \in SearchTurns(ViewLimits) :
       (PromptTurn(ViewLimits, t[1], t[2]) /\ SomeRowHolds(t[1]) /\ pc' = "find")
         => /\ find'.lastMatchRowIndex \in 0..(Len(Rows) - 1)
            /\ CY' = find'.lastMatchRowIndex
            /\ Rendered'.RowOffset = find'.lastMatchRowIndex]_vars

\* A key of the search has just matched the second row on a screen of two
\* rows, where the row was visible already with the row offset at 0.
MatchRowIsFirstVisibleWitness ==
  /\ pc = "find" /\ lastCmd = "search-key"
  /\ ScreenRows = 2 /\ Len(Rows) = 2
  /\ find.lastMatchRowIndex = 1 /\ CY = 1
  /\ RowOffset = Len(Rows)
  /\ Rendered.RowOffset = 1

\* ---------------------------------------------------------------- SpecBool
\* The highlighter on every row of at most MaxBoolLen characters among the
\* letters of "true", another letter and a space, read from a C file of one
\* line.
BoolKeys == {"t", "r", "u", "e", "x", SPACE}

BoolLimits ==
  [ Keys |-> BoolKeys, QueryKeys |-> {}, Names |-> {},
    MaxRows |-> MaxRows, MaxLen |-> MaxBoolLen, MaxIdx |-> MaxIdx,
    MaxQuery |-> MaxQuery, MaxDirty |-> MaxDirty ]

BoolLines == IF Rows = <<>> THEN SeqsUpTo(BoolKeys, MaxBoolLen) ELSE {}

InitBool == InitWith({"f.c"}, {DefaultConfig}, {Terminal})

NextBool ==
  \/ \E line \in BoolLines : LoadRow(BoolLimits, line)
  \/ LoadDone(BoolLimits)

SpecBool == InitBool /\ [][NextBool]_vars

\* The maximal runs a..b of boolean tags of a row.
BooleanRuns(row) ==
  {ab \in (1..Len(row.hl)) \X (1..Len(row.hl)) :
     /\ ab[1] <= ab[2]
     /\ \A j \in ab[1]..ab[2] : row.hl[j] = hlBoolean
     /\ (ab[1] = 1 \/ row.hl[ab[1] - 1] # hlBoolean)
     /\ (ab[2] = Len(row.hl) \/ row.hl[ab[2] + 1] # hlBoolean)}

\* C22: a run of boolean tags spells true or false, whatever the case of its
\* letters, and has a separator or the row boundary on both sides.
BooleanBetweenSeparators ==
  \A i \in 1..Len(Rows) : \A ab \in BooleanRuns(Rows[i]) :
    /\ LowerAll(SubSeq(Rows[i].render, ab[1], ab[2])) \in {WordTrue, WordFalse}
    /\ SeparatorBefore(Rows[i], ab[1])
    /\ SeparatorAfter(Rows[i], ab[2])

\* ------------------------------------------------ further claims under Spec
RECURSIVE CascadeVisits(_, _, _)

\* The rest of the visits of UpdateHighlight on the row at position p, res
\* being the tags and the carried state the scan gives the row: the row at
\* idx + 1 is visited next when the carried state has changed
\* (editor.go:859-863).
VisitsAfter(e, p, row, res) ==
  IF row.hasUnclosedComment # res.inComment /\ row.idx + 1 < Len(e.Rows)
  THEN <<p>> \o CascadeVisits(
                  [e EXCEPT !.Rows[p] = [row EXCEPT !.hl = res.hl,
                                                    !.hasUnclosedComment = res.inComment]],
                  row.idx + 2, e.Rows[row.idx + 2])
  ELSE <<p>>

\* The positions (from 1) of the rows that UpdateHighlight visits, in the
\* order of the visits, when called on the row at position p of e.Rows.
CascadeVisits(e, p, row) ==
  IF e.Syntax = NoSyntax \/ (row.idx > 0 /\ row.idx > Len(e.Rows)) THEN <<p>>
  ELSE VisitsAfter(e, p, row,
                   HighlightOf(e.Syntax, row.render,
                               row.idx > 0 /\ e.Rows[row.idx].hasUnclosedComment))

\* The row of the cursor with c typed into it, as UpdateRow hands it to
\* UpdateHighlight.
TypedRow(c) ==
  [Rows[CY + 1] EXCEPT
     !.chars = RowInsertChar(@, CX, c),
     !.render = RenderOf(RowInsertChar(Rows[CY + 1].chars, CX, c), Config.TabStop)]

\* The visits v go through consecutive rows and end at the last row of the
\* file or at a row whose carried state the step leaves as it was.
VisitsInOrder(v) ==
  /\ \A k \in 1..(Len(v) - 1) : v[k + 1] = v[k] + 1
  /\ \/ v[Len(v)] = Len(Rows)
     \/ Rows'[v[Len(v)]].hasUnclosedComment = Rows[v[Len(v)]].hasUnclosedComment

\* C23: the re-highlight that a typed character starts ends, having visited
\* the rows from the edited one on, one after the other and each once, up to
\* the first row whose carried comment state has not changed or the end of
\* the file, whatever rows were inserted and deleted before.
CascadeVisitsRowsInOrder ==
  [][\A c \in EditLimits.Keys :
       (KeyChar(EditLimits, c) /\ CY < Len(Rows) /\ Syntax # NoSyntax)
         => /\ pc' = "main"
            /\ VisitsInOrder(CascadeVisits(Rendered, CY + 1, TypedRow(c)))]_vars

\* ------------------------------------------ newline followed by backspace
\* The editor after Enter and then backspace, each handled as one turn of the
\* loop of main (Render, then the key).
NewlineThenBackspace(e) == DeleteChar(Scroll(InsertNewline(Scroll(e))))

\* e1 has the contents of the rows and the cursor of the present state.
RestoredIn(e1) ==
  /\ e1.ok
  /\ Contents(e1.Rows) = Contents(Rows)
  /\ e1.CY = CY /\ e1.CX = CX

\* C24 as stated: at every cursor position, column zero and the append
\* position past the last row included, Enter followed at once by backspace
\* gives back the contents of the rows and the cursor.
NewlineBackspaceRestores ==
  pc = "main" => RestoredIn(NewlineThenBackspace(Ed))

\* The same for the cursor on a row only, column zero included; at the append
\* position Enter adds an empty last row and moves the cursor past it, and
\* DeleteChar returns at once (editor.go:941-943). Holds under SpecTab, where
\* no row opens a comment; under Spec a stale idx makes the pair panic.
NewlineBackspaceRestoresOnRows ==
  pc = "main"
    => IF CY < Len(Rows) THEN RestoredIn(NewlineThenBackspace(Ed))
       ELSE /\ NewlineThenBackspace(Ed).ok
            /\ Contents(NewlineThenBackspace(Ed).Rows) = Append(Contents(Rows), <<>>)
            /\ NewlineThenBackspace(Ed).CY = CY + 1
            /\ NewlineThenBackspace(Ed).CX = 0

\* ------------------------------------------ further claims under SpecFind
\* The callback on a forward key (right, down) in the present state of the
\* prompt, and on a backward key (left, up) in the turn after it: Prompt
\* calls Render between the two keys.
ForwardStep == OnKeyPress(Rendered, find, find.query, "next")

BackwardStepAfter(r) == OnKeyPress(Scroll(r.e), r.f, find.query, "prev")

OffsetRoundTrip ==
  \A i \in 1..Len(Rows) : \A cx \in 0..(Len(Rows[i].chars) - 1) :
    RowRxToCx(Rows[i], RowCxToRx(Rows[i], cx, Config.TabStop), Config.TabStop) = cx

\* A row is loaded in which a letter follows a tab and a character two
\* columns wide, so that its rendered column is not its offset.
OffsetRoundTripWitness ==
  /\ pc = "main"
  /\ \E i \in 1..Len(Rows) : \E cx \in 2..(Len(Rows[i].chars) - 1) :
       /\ Rows[i].chars[cx + 1] = "a"
       /\ TAB \in {Rows[i].chars[k] : k \in 1..cx}
       /\ "W" \in {Rows[i].chars[k] : k \in 1..cx}
       /\ RowCxToRx(Rows[i], cx, Config.TabStop) > cx
       /\ RowRxToCx(Rows[i], RowCxToRx(Rows[i], cx, Config.TabStop), Config.TabStop) = cx

====
